---- MODULE Spec2Model ----
(***************************************************************************)
(* Model of ntfy_to_sip.py: the supervisor loop main(), the SSE subscriber *)
(* subscribe_ntfy(), the dispatcher handle_ntfy_msg() and the AMI client   *)
(* AMIClient.  One flow of control; pc is its position.  The ntfy server   *)
(* and the AMI server are the environment: every network operation has    *)
(* its outcomes chosen nondeterministically.                               *)
(***************************************************************************)
EXTENDS Integers, Sequences, FiniteSets, TLC

(* ---------------- bounds of the explored inputs ---------------- *)
MaxLines == 2      \* lines the ntfy server delivers on one connection
MaxResp  == 3      \* tokens the AMI server sends in answer to one block
MaxFail  == 2      \* the count of consecutive failures saturates here
MaxPrio  == 5      \* largest integer priority of an event
MaxSent  == 3      \* blocks an AMIClient called directly is followed through
MaxFields == 2     \* fields of a dictionary passed to _ami_line directly

(* ---------------- configuration (module constants) ---------------- *)
EXTENSION   == "1000"
CALLERID    == "NTFY Bridge <7777>"
AMI_USER    == "ntfybridge"
AMI_PASS    == "secret"
DIAL_STRING == "PJSIP/1000"
CONTEXT     == "from-internal"
PRIORITY    == 1
TIMEOUT_MS  == 30000
ShortSleep  == 3
LongSleep   == 5
Threshold   == 4
DefaultPrio == 3

(* ---------------- bytes, as sequences of tokens ---------------- *)
CRLF    == "\r\n"
Success == "Success"
Tokens  == {CRLF, Success}
Terminator == <<CRLF, CRLF>>

\* pat occurs in s as a contiguous run (Python's `pat in s` on bytes)
Contains(s, pat) ==
    \E i \in 0..(Len(s) - Len(pat)) :
        \A j \in 1..Len(pat) : s[i + j] = pat[j]

RECURSIVE Join(_)
\* b"".join(chunks)
Join(cs) == IF cs = <<>> THEN <<>> ELSE Head(cs) \o Join(Tail(cs))

\* the non-empty byte strings one recv() can return, at most n tokens long
RECURSIVE SeqsUpTo(_)
SeqsUpTo(n) ==
    IF n = 0 THEN {<<>>}
    ELSE LET prev == SeqsUpTo(n - 1)
         IN  prev \cup {Append(s, t) : s \in {p \in prev : Len(p) = n - 1}, t \in Tokens}

(* ---------------- AMI command blocks ---------------- *)
StrItem(k, v) == [k |-> k, t |-> "str", s |-> v, i |-> 0]
IntItem(k, n) == [k |-> k, t |-> "int", s |-> "", i |-> n]
\* f"{v}"
Fmt(item) == IF item.t = "int" THEN ToString(item.i) ELSE item.s

RECURSIVE JoinItems(_)
\* "\r\n".join(f"{k}: {v}" ...)
JoinItems(d) ==
    IF d = <<>> THEN <<>>
    ELSE IF Len(d) = 1 THEN <<d[1].k, ": ", Fmt(d[1])>>
    ELSE <<d[1].k, ": ", Fmt(d[1]), CRLF>> \o JoinItems(Tail(d))

\* variant: the block ends with one CRLF
_ami_lineOneCRLF(cmd_dict) == JoinItems(cmd_dict) \o <<CRLF>>

\* ("\r\n".join(...) + "\r\n\r\n").encode()
_ami_line(cmd_dict) == JoinItems(cmd_dict) \o <<CRLF, CRLF>>

LoginCmd ==
    << StrItem("Action", "Login"), StrItem("Username", AMI_USER),
       StrItem("Secret", AMI_PASS), StrItem("Events", "off") >>

LogoffCmd == << StrItem("Action", "Logoff") >>

\* variant: Exten and Context take each other's value
OriginateCmdSwapped(channel, exten, context, priority, callerid, timeout_ms) ==
    << StrItem("Action", "Originate"), StrItem("Channel", channel),
       StrItem("Context", exten), StrItem("Exten", context),
       IntItem("Priority", priority), StrItem("CallerID", callerid),
       IntItem("Timeout", timeout_ms), StrItem("Async", "true") >>

OriginateCmd(channel, exten, context, priority, callerid, timeout_ms) ==
    << StrItem("Action", "Originate"), StrItem("Channel", channel),
       StrItem("Context", context), StrItem("Exten", exten),
       IntItem("Priority", priority), StrItem("CallerID", callerid),
       IntItem("Timeout", timeout_ms), StrItem("Async", "true") >>

(* ---------------- exceptions ---------------- *)
Exceptions == {"OSError", "RuntimeError", "ValueError", "TypeError",
               "AttributeError", "ClientError"}
NoExc == "none"

(* ---------------- events ---------------- *)
\* the value of the "priority" field of a JSON object
PrioInt(n)    == [t |-> "int",    i |-> n]
PrioNumStr(n) == [t |-> "numstr", i |-> n]     \* "5"
PrioFloat(n)  == [t |-> "float",  i |-> n]     \* n tenths: 45 is 4.5
PrioText      == [t |-> "text",   i |-> 0]     \* "high"
PrioNull      == [t |-> "null",   i |-> 0]     \* null
PrioAbsent    == [t |-> "absent", i |-> 0]     \* no "priority" key

PrioValues ==
    {PrioInt(n) : n \in 1..MaxPrio} \cup
    {PrioNumStr(5), PrioFloat(39), PrioText, PrioNull, PrioAbsent}

ObjMsg(p) == [obj |-> TRUE,  priority |-> p]
NonObj    == [obj |-> FALSE, priority |-> PrioAbsent]   \* JSON list, number, string
NoMsg     == [obj |-> FALSE, priority |-> PrioNull]     \* nothing forwarded yet
Msgs      == {ObjMsg(p) : p \in PrioValues} \cup {NonObj}

\* msg.get("priority", 3): the exception it raises, or "none"
GetExc(msg) == IF msg.obj THEN NoExc ELSE "AttributeError"
\* int(v): the exception it raises, or "none"
IntExc(v) ==
    CASE v.t = "text" -> "ValueError"
      [] v.t = "null" -> "TypeError"
      [] OTHER        -> NoExc
\* int(v) when it does not raise
IntOf(v) ==
    CASE v.t = "int"    -> v.i
      [] v.t = "numstr" -> v.i
      [] v.t = "float"  -> v.i \div 10
      [] v.t = "absent" -> DefaultPrio
      [] OTHER          -> 0
\* prio = int(msg.get("priority", 3)): exception raised, or "none"
PrioExc(msg) == IF GetExc(msg) # NoExc THEN GetExc(msg) ELSE IntExc(msg.priority)
PrioOf(msg)  == IntOf(msg.priority)

VARIABLES
    pc,          \* position of the single flow of control
    httpOpen,    \* the streaming GET response is open
    lineNo,      \* lines read from the current stream
    cur,         \* msg of the running / last call of handle_ntfy_msg on this stream
    sessions,    \* AMIClient objects created by that call
    sock,        \* AMIClient.sock: "None" or "socket"
    fdOpen,      \* the TCP connection under AMIClient.sock is open
    authed,      \* the login response read on this session contained Success
    chunks,      \* chunks of the running _read_until_blank
    sent,        \* blocks handed to sock.sendall on this session, in order
    dispatchErr, \* exception caught by handle_ntfy_msg's except clause
    pending,     \* exception in flight through handle_ntfy_msg's finally
    closeCalled, \* ami.close() was invoked on this session
    closeErr,    \* exception that left ami.close()
    logoffErr,   \* exception swallowed inside ami.close()
    fails,       \* consecutive failed subscribe_ntfy calls (saturating)
    sleep,       \* duration of the running asyncio.sleep, 0 when none
    lastExc,     \* exception main() caught last
    highSeen,    \* events with int(priority) >= 4 forwarded on this stream
    dispatched,  \* AMIClient objects created on this stream
    lastLine,    \* what the last line read from this stream was
    skipped,     \* "data: " lines of this stream dropped as not JSON
    afterDrop,   \* the previous subscribe_ntfy call ended by a drop of the stream
    call,        \* the last call made directly on the module or on an AMIClient
    posts        \* requests the webhook server has received

vars == << pc, httpOpen, lineNo, cur, sessions, sock, fdOpen, authed, chunks,
           sent, dispatchErr, pending, closeCalled, closeErr, logoffErr,
           fails, sleep, lastExc, highSeen, dispatched, lastLine, skipped,
           afterDrop, call, posts >>

amiVars  == << sessions, sock, fdOpen, authed, chunks, sent, dispatchErr,
               pending, closeCalled, closeErr, logoffErr >>
mainVars == << fails, sleep, lastExc, afterDrop >>
apiVars  == << call, posts >>
streamVars == << httpOpen, lineNo, cur, highSeen, dispatched, lastLine, skipped >>
lineVars == << lineNo, cur, highSeen, dispatched, lastLine, skipped >>

\* no direct call has been made
NoCall == [op |-> "none", arg |-> <<>>, exc |-> NoExc]

DispatchPcs == {"connect", "banner", "login_send", "login_read", "login_check",
                "orig_send", "orig_read", "close", "sock_close"}

\* nothing has run yet: no stream, no AMIClient, no failure
Fresh ==
    /\ httpOpen = FALSE
    /\ lineNo = 0
    /\ cur = NoMsg
    /\ sessions = 0
    /\ sock = "None"
    /\ fdOpen = FALSE
    /\ authed = FALSE
    /\ chunks = <<>>
    /\ sent = <<>>
    /\ dispatchErr = NoExc
    /\ pending = NoExc
    /\ closeCalled = FALSE
    /\ closeErr = NoExc
    /\ logoffErr = NoExc
    /\ fails = 0
    /\ sleep = 0
    /\ lastExc = NoExc
    /\ highSeen = 0
    /\ dispatched = 0
    /\ lastLine = "none"
    /\ skipped = 0
    /\ afterDrop = FALSE
    /\ posts = <<>>

Init == pc = "main" /\ call = NoCall /\ Fresh

(* ---------------- main(): the supervisor loop ---------------- *)
\* variant: the wait grows with the number of consecutive failures
BackoffGrowing(e) == (IF e = "ClientError" THEN ShortSleep ELSE LongSleep) * (fails + 1)

\* except aiohttp.ClientError -> sleep(3); except Exception -> sleep(5)
Backoff(e) == IF e = "ClientError" THEN ShortSleep ELSE LongSleep

Bump(n) == IF n < MaxFail THEN n + 1 ELSE MaxFail

\* an exception leaves subscribe_ntfy (the `async with` blocks close the
\* response and the session) and is caught by one of main()'s except clauses;
\* raised at "stream" it comes from reading the body
RaiseToMain(e) ==
    /\ pc' = "backoff"
    /\ httpOpen' = FALSE
    /\ lastExc' = e
    /\ sleep' = Backoff(e)
    /\ fails' = Bump(fails)
    /\ afterDrop' = (pc = "stream")

\* main(): `while True: await subscribe_ntfy()` up to the session.get call
CallSubscribe ==
    /\ pc = "main"
    /\ pc' = "get"
    /\ lineNo' = 0 /\ cur' = NoMsg /\ highSeen' = 0 /\ dispatched' = 0
    /\ lastLine' = "none" /\ skipped' = 0
    /\ sessions' = 0 /\ sent' = <<>> /\ authed' = FALSE
    /\ dispatchErr' = NoExc /\ closeCalled' = FALSE
    /\ closeErr' = NoExc /\ logoffErr' = NoExc
    /\ UNCHANGED << httpOpen, sock, fdOpen, chunks, pending, mainVars >>
    /\ UNCHANGED apiVars

\* variant: main() gives up once the failure count reaches its cap
SleepDoneGiveUp ==
    /\ pc = "backoff"
    /\ fails < MaxFail
    /\ pc' = "main"
    /\ sleep' = 0
    /\ lastExc' = NoExc
    /\ UNCHANGED << fails, afterDrop, streamVars, amiVars >>
    /\ UNCHANGED apiVars

\* asyncio.sleep(3) / asyncio.sleep(5) returns; back to the top of the loop
SleepDone ==
    /\ pc = "backoff"
    /\ pc' = "main"
    /\ sleep' = 0
    /\ lastExc' = NoExc
    /\ UNCHANGED << fails, afterDrop, streamVars, amiVars >>
    /\ UNCHANGED apiVars

(* ---------------- subscribe_ntfy() ---------------- *)
\* session.get succeeds and raise_for_status() passes
GetOk ==
    /\ pc = "get"
    /\ pc' = "stream"
    /\ httpOpen' = TRUE
    /\ UNCHANGED << lineVars, amiVars, mainVars >>
    /\ UNCHANGED apiVars

\* session.get fails, or raise_for_status() raises ClientResponseError
GetFail ==
    /\ pc = "get"
    /\ RaiseToMain("ClientError")
    /\ UNCHANGED << lineVars, amiVars >>
    /\ UNCHANGED apiVars

\* a line that does not start with "data: " : continue
ReadOther ==
    /\ pc = "stream" /\ lineNo < MaxLines
    /\ lineNo' = lineNo + 1
    /\ lastLine' = "other"
    /\ UNCHANGED << pc, httpOpen, cur, highSeen, dispatched, skipped,
                    amiVars, mainVars >>
    /\ UNCHANGED apiVars

\* variant: JSONDecodeError is not caught and leaves subscribe_ntfy
ReadBadJsonFatal ==
    /\ pc = "stream" /\ lineNo < MaxLines
    /\ lineNo' = lineNo + 1
    /\ lastLine' = "badjson"
    /\ RaiseToMain("ValueError")
    /\ UNCHANGED << cur, highSeen, dispatched, skipped, amiVars >>
    /\ UNCHANGED apiVars

\* a "data: " line whose payload json.loads rejects: logged, continue
ReadBadJson ==
    /\ pc = "stream" /\ lineNo < MaxLines
    /\ lineNo' = lineNo + 1
    /\ lastLine' = "badjson"
    /\ skipped' = skipped + 1
    /\ UNCHANGED << pc, httpOpen, cur, highSeen, dispatched, amiVars, mainVars >>
    /\ UNCHANGED apiVars

\* a "data: " line whose payload parses: await handle_ntfy_msg(msg)
ReadMsg ==
    /\ pc = "stream" /\ lineNo < MaxLines
    /\ \E m \in Msgs :
         /\ cur' = m
         /\ highSeen' = IF PrioExc(m) = NoExc /\ PrioOf(m) >= 4
                        THEN highSeen + 1 ELSE highSeen
    /\ lineNo' = lineNo + 1
    /\ lastLine' = "msg"
    /\ pc' = "handle"
    /\ sessions' = 0 /\ sent' = <<>> /\ authed' = FALSE
    /\ dispatchErr' = NoExc /\ closeCalled' = FALSE
    /\ closeErr' = NoExc /\ logoffErr' = NoExc
    /\ UNCHANGED << httpOpen, dispatched, skipped, sock, fdOpen, chunks, pending, mainVars >>
    /\ UNCHANGED apiVars

\* variant: main() also waits after a subscription that returned
StreamEndSleeps ==
    /\ pc = "stream"
    /\ pc' = "backoff"
    /\ sleep' = ShortSleep
    /\ httpOpen' = FALSE
    /\ fails' = 0
    /\ afterDrop' = FALSE
    /\ UNCHANGED << lineVars, amiVars, lastExc >>
    /\ UNCHANGED apiVars

\* the body ends: the loop and the `async with` blocks exit, subscribe_ntfy
\* returns, main() loops without sleeping
StreamEnd ==
    /\ pc = "stream"
    /\ pc' = "main"
    /\ httpOpen' = FALSE
    /\ fails' = 0
    /\ afterDrop' = FALSE
    /\ UNCHANGED << lineVars, amiVars, sleep, lastExc >>
    /\ UNCHANGED apiVars

\* variant: the drop surfaces as an error outside aiohttp.ClientError
StreamErrorOther ==
    /\ pc = "stream"
    /\ RaiseToMain("OSError")
    /\ UNCHANGED << lineVars, amiVars >>
    /\ UNCHANGED apiVars

\* the connection drops while the body is read (ClientPayloadError, ...)
StreamError ==
    /\ pc = "stream"
    /\ RaiseToMain("ClientError")
    /\ UNCHANGED << lineVars, amiVars >>
    /\ UNCHANGED apiVars

subscribe_ntfy ==
    GetOk \/ GetFail \/ ReadOther \/ ReadBadJson \/ ReadMsg \/ StreamEnd \/ StreamError

(* ---------------- handle_ntfy_msg() ---------------- *)
\* variant: the threshold is exclusive
DispatchesStrict(prio) == prio > Threshold

\* `if prio >= 4`
Dispatches(prio) == prio >= Threshold

\* variant: the handler catches RuntimeError only
HandlerCatchesRuntimeOnly(e) == e = "RuntimeError"

\* `except Exception` of handle_ntfy_msg
HandlerCatches(e) == e \in Exceptions

\* variant: the handler has no finally clause, a failed dispatch returns at once
DispatchRaiseNoFinally(e) ==
    /\ pc' = "stream"
    /\ chunks' = <<>>
    /\ dispatchErr' = e
    /\ pending' = NoExc

\* an exception is raised inside the try block: caught and logged, or left
\* in flight; the finally clause runs next either way
DispatchRaise(e) ==
    /\ pc' = "close"
    /\ chunks' = <<>>
    /\ IF HandlerCatches(e)
       THEN dispatchErr' = e /\ pending' = NoExc
       ELSE dispatchErr' = dispatchErr /\ pending' = e

\* int(msg.get("priority", 3)) raises: nothing in handle_ntfy_msg or
\* subscribe_ntfy catches it
HandleRaise ==
    /\ pc = "handle"
    /\ PrioExc(cur) # NoExc
    /\ RaiseToMain(PrioExc(cur))
    /\ UNCHANGED << lineVars, amiVars >>
    /\ UNCHANGED apiVars

\* prio < 4: log and return
HandleLow ==
    /\ pc = "handle"
    /\ PrioExc(cur) = NoExc
    /\ ~Dispatches(PrioOf(cur))
    /\ pc' = "stream"
    /\ UNCHANGED << httpOpen, lineVars, amiVars, mainVars >>
    /\ UNCHANGED apiVars

\* prio >= 4: ami = AMIClient(...)
HandleHigh ==
    /\ pc = "handle"
    /\ PrioExc(cur) = NoExc
    /\ Dispatches(PrioOf(cur))
    /\ pc' = "connect"
    /\ sessions' = sessions + 1
    /\ dispatched' = dispatched + 1
    /\ sock' = "None"
    /\ UNCHANGED << httpOpen, lineNo, cur, highSeen, lastLine, skipped,
                    fdOpen, authed, chunks, sent,
                    dispatchErr, pending, closeCalled, closeErr, logoffErr, mainVars >>
    /\ UNCHANGED apiVars

(* ---------------- AMIClient ---------------- *)
\* variant: no `if not self.sock` guard, sendall is looked up on None
_sendUnguarded(s, cmd, io) ==
    IF s = "None" THEN [exc |-> "AttributeError", wire |-> <<>>]
    ELSE IF io = "ok" THEN [exc |-> NoExc, wire |-> << _ami_line(cmd) >>]
    ELSE [exc |-> "OSError", wire |-> <<>>]

\* _send(cmd) on a client whose sock is s; io is the outcome of sendall
_send(s, cmd, io) ==
    IF s = "None" THEN [exc |-> "RuntimeError", wire |-> <<>>]
    ELSE IF io = "ok" THEN [exc |-> NoExc, wire |-> << _ami_line(cmd) >>]
    ELSE [exc |-> "OSError", wire |-> <<>>]

\* one turn of the loop of _read_until_blank, data being what recv returned
_read_until_blank(cs, data) ==
    IF data = <<>> THEN [chunks |-> cs, done |-> TRUE]
    ELSE [chunks |-> Append(cs, data), done |-> Contains(data, Terminator)]

\* what recv may return now: any chunk the bound leaves room for, or b""
RecvData == { d \in SeqsUpTo(MaxResp) : Len(Join(chunks)) + Len(d) <= MaxResp }

\* connect(): socket.create_connection
ConnectOk ==
    /\ pc = "connect"
    /\ sock' = "socket" /\ fdOpen' = TRUE
    /\ pc' = "banner"
    /\ UNCHANGED << streamVars, mainVars, sessions, authed, chunks, sent,
                    dispatchErr, pending, closeCalled, closeErr, logoffErr >>
    /\ UNCHANGED apiVars

ConnectFail ==
    /\ pc = "connect"
    /\ DispatchRaise("OSError")
    /\ UNCHANGED << streamVars, mainVars, sessions, sock, fdOpen, authed, sent,
                    closeCalled, closeErr, logoffErr >>
    /\ UNCHANGED apiVars

\* connect(): _ = self.sock.recv(4096)
BannerOk ==
    /\ pc = "banner"
    /\ pc' = "login_send"
    /\ UNCHANGED << streamVars, mainVars, amiVars >>
    /\ UNCHANGED apiVars

BannerFail ==
    /\ pc = "banner"
    /\ DispatchRaise("OSError")
    /\ UNCHANGED << streamVars, mainVars, sessions, sock, fdOpen, authed, sent,
                    closeCalled, closeErr, logoffErr >>
    /\ UNCHANGED apiVars

\* a _send inside the try block, followed by `next` when it succeeds
SendStep(at, cmd, next) ==
    /\ pc = at
    /\ \E io \in {"ok", "fail"} :
         LET r == _send(sock, cmd, io)
         IN  IF r.exc = NoExc
             THEN /\ sent' = sent \o r.wire
                  /\ pc' = next
                  /\ UNCHANGED << chunks, dispatchErr, pending >>
             ELSE /\ sent' = sent
                  /\ DispatchRaise(r.exc)
    /\ UNCHANGED << streamVars, mainVars, sessions, sock, fdOpen, authed,
                    closeCalled, closeErr, logoffErr >>
    /\ UNCHANGED apiVars

\* a recv of _read_until_blank inside the try block; the caller keeps the
\* returned bytes (connect) or drops them (originate_simple)
ReadStep(at, next, keep) ==
    /\ pc = at
    /\ IF sock = "None"
       THEN DispatchRaise("RuntimeError")
       ELSE \/ \E d \in RecvData :
                 LET r == _read_until_blank(chunks, d)
                 IN  /\ chunks' = IF r.done /\ ~keep THEN <<>> ELSE r.chunks
                     /\ pc' = IF r.done THEN next ELSE at
                     /\ UNCHANGED << dispatchErr, pending >>
            \/ DispatchRaise("OSError")
    /\ UNCHANGED << streamVars, mainVars, sessions, sock, fdOpen, authed, sent,
                    closeCalled, closeErr, logoffErr >>
    /\ UNCHANGED apiVars

\* connect(): self._send({Login ...})
LoginSend == SendStep("login_send", LoginCmd, "login_read")

\* connect(): response = self._read_until_blank()
LoginRead == ReadStep("login_read", "login_check", TRUE)

\* variant: connect() never inspects the response
LoginAcceptedAlways(response) == TRUE

\* variant: connect() looks for the end of the block instead of the marker
LoginAcceptedTerminated(response) == Contains(response, Terminator)

\* `if b"Success" not in response`
LoginAccepted(response) == Contains(response, << Success >>)

\* connect(): raise RuntimeError unless the response contains Success
LoginCheck ==
    /\ pc = "login_check"
    /\ authed' = Contains(Join(chunks), << Success >>)
    /\ IF LoginAccepted(Join(chunks))
       THEN /\ pc' = "orig_send"
            /\ chunks' = <<>>
            /\ UNCHANGED << dispatchErr, pending >>
       ELSE DispatchRaise("RuntimeError")
    /\ UNCHANGED << streamVars, mainVars, sessions, sock, fdOpen, sent,
                    closeCalled, closeErr, logoffErr >>
    /\ UNCHANGED apiVars

connect == ConnectOk \/ ConnectFail \/ BannerOk \/ BannerFail
              \/ LoginSend \/ LoginRead \/ LoginCheck

\* originate_simple(): self._send(action)
OrigSend ==
    SendStep("orig_send",
             OriginateCmd(DIAL_STRING, EXTENSION, CONTEXT, PRIORITY, CALLERID, TIMEOUT_MS),
             "orig_read")

\* originate_simple(): _ = self._read_until_blank(); then "Originate sent"
\* is logged and the finally clause runs
OrigRead == ReadStep("orig_read", "close", FALSE)

originate_simple == OrigSend \/ OrigRead

\* close(), the try block: Logoff is sent when a socket is held; what the
\* send raises is swallowed by `except Exception: pass`
CloseLogoff ==
    /\ pc = "close"
    /\ closeCalled' = TRUE
    /\ IF sock = "None"
       THEN UNCHANGED << sent, logoffErr >>
       ELSE \E io \in {"ok", "fail"} :
              LET r == _send(sock, LogoffCmd, io)
              IN  /\ sent' = sent \o r.wire
                  /\ logoffErr' = r.exc
    /\ pc' = "sock_close"
    /\ UNCHANGED << streamVars, mainVars, sessions, sock, fdOpen, authed, chunks,
                    dispatchErr, pending, closeErr >>
    /\ UNCHANGED apiVars

\* handle_ntfy_msg leaves its finally clause: back in the loop of
\* subscribe_ntfy, or on to main() with the exception still in flight
HandleReturn ==
    IF pending = NoExc
    THEN pc' = "stream" /\ UNCHANGED << httpOpen, mainVars >>
    ELSE RaiseToMain(pending)

\* variant: the socket is closed only after a Logoff that went out
CloseSocketAfterLogoff ==
    /\ pc = "sock_close"
    /\ IF sock = "None" \/ logoffErr # NoExc
       THEN UNCHANGED << sock, fdOpen, closeErr >>
       ELSE /\ fdOpen' = FALSE
            /\ sock' = "None"
            /\ \E e \in {NoExc, "OSError"} : closeErr' = e
    /\ HandleReturn
    /\ pending' = NoExc
    /\ UNCHANGED << lineVars, sessions, authed, chunks, sent, dispatchErr,
                    closeCalled, logoffErr >>
    /\ UNCHANGED apiVars

\* close(), the finally block: sock.close() releases the descriptor even
\* when it raises, and self.sock = None runs either way; what leaves close()
\* is swallowed by the `except Exception: pass` around ami.close()
CloseSocket ==
    /\ pc = "sock_close"
    /\ IF sock = "None"
       THEN UNCHANGED << sock, fdOpen, closeErr >>
       ELSE /\ fdOpen' = FALSE
            /\ sock' = "None"
            /\ \E e \in {NoExc, "OSError"} : closeErr' = e
    /\ HandleReturn
    /\ pending' = NoExc
    /\ UNCHANGED << lineVars, sessions, authed, chunks, sent, dispatchErr,
                    closeCalled, logoffErr >>
    /\ UNCHANGED apiVars

close == CloseLogoff \/ CloseSocket

handle_ntfy_msg ==
    HandleRaise \/ HandleLow \/ HandleHigh \/ connect \/ originate_simple \/ close

main == CallSubscribe \/ SleepDone

Next == main \/ subscribe_ntfy \/ handle_ntfy_msg

Spec == Init /\ [][Next]_vars

\* asyncio.sleep(3) and asyncio.sleep(5) return, and main() then runs on to
\* its next call of subscribe_ntfy; nothing is assumed of the network
LiveSpec == Spec /\ WF_vars(main)

(* ---------------- AMIClient called directly ---------------- *)
\* what the calls on an AMIClient leave alone
clientIdle == << pc, httpOpen, lineNo, cur, sessions, chunks, dispatchErr, pending,
                mainVars, highSeen, dispatched, lastLine, skipped, posts >>

\* the non-empty chunks the recv calls of one _read_until_blank return, n
\* tokens at most in all
RECURSIVE ChunkLists(_)
ChunkLists(n) ==
    {<<>>} \cup UNION { { <<c>> \o l : l \in ChunkLists(n - Len(c)) } :
                         c \in SeqsUpTo(n) \ {<<>>} }

\* how far a call gets: create_connection refused, the banner recv fails,
\* sendall fails, or the reads are served and the peer then closes (recv
\* returns b"") or stays silent (recv raises socket.timeout)
Outcomes ==
    ({"refused", "banner", "send"} \X {<<>>} \X {"eof"})
        \cup ({"read"} \X ChunkLists(MaxResp) \X {"eof", "timeout"})

\* the loop of _read_until_blank run over the reads, from the chunks cs
RECURSIVE ReadLoop(_, _, _)
ReadLoop(cs, reads, end) ==
    IF reads = <<>>
    THEN IF end = "eof"
         THEN [exc |-> NoExc, bytes |-> Join(_read_until_blank(cs, <<>>).chunks)]
         ELSE [exc |-> "OSError", bytes |-> <<>>]
    ELSE LET r == _read_until_blank(cs, Head(reads))
         IN  IF r.done THEN [exc |-> NoExc, bytes |-> Join(r.chunks)]
             ELSE ReadLoop(r.chunks, Tail(reads), end)

\* _read_until_blank() on a client whose sock is s
ReadAll(s, o) ==
    IF s = "None" THEN [exc |-> "RuntimeError", bytes |-> <<>>]
    ELSE ReadLoop(<<>>, o[2], o[3])

SendOutcome(o) == IF o[1] = "send" THEN "fail" ELSE "ok"

\* connect() with outcome o: the socket held afterwards, the blocks written,
\* whether the reply held Success, and the exception raised
ConnectRun(o) ==
    IF o[1] = "refused"
    THEN [sock |-> "None", wire |-> <<>>, ok |-> FALSE, exc |-> "OSError"]
    ELSE IF o[1] = "banner"
    THEN [sock |-> "socket", wire |-> <<>>, ok |-> FALSE, exc |-> "OSError"]
    ELSE LET s == _send("socket", LoginCmd, SendOutcome(o))
             r == ReadAll("socket", o)
         IN  IF s.exc # NoExc
             THEN [sock |-> "socket", wire |-> <<>>, ok |-> FALSE, exc |-> s.exc]
             ELSE IF r.exc # NoExc
             THEN [sock |-> "socket", wire |-> s.wire, ok |-> FALSE, exc |-> r.exc]
             ELSE [sock |-> "socket", wire |-> s.wire,
                   ok |-> Contains(r.bytes, << Success >>),
                   exc |-> IF LoginAccepted(r.bytes) THEN NoExc ELSE "RuntimeError"]

\* ami.connect() on a client that holds no socket
CallConnect ==
    /\ pc = "client" /\ sock = "None" /\ Len(sent) < MaxSent
    /\ \E o \in Outcomes :
          LET r == ConnectRun(o)
          IN  /\ sock' = r.sock
              /\ fdOpen' = (r.sock # "None")
              /\ sent' = sent \o r.wire
              /\ authed' = r.ok
              /\ call' = [op |-> "connect", arg |-> <<>>, exc |-> r.exc]
    /\ UNCHANGED << clientIdle, closeCalled, closeErr, logoffErr >>

\* originate_simple() with outcome o on a client whose sock is s
OriginateRun(s, o) ==
    LET w == _send(s, OriginateCmd(DIAL_STRING, EXTENSION, CONTEXT, PRIORITY,
                                   CALLERID, TIMEOUT_MS), SendOutcome(o))
        r == ReadAll(s, o)
    IN  IF w.exc # NoExc THEN [wire |-> <<>>, exc |-> w.exc]
        ELSE [wire |-> w.wire, exc |-> r.exc]

\* ami.originate_simple(...) in whatever state the client is
CallOriginate ==
    /\ pc = "client" /\ Len(sent) < MaxSent
    /\ \E o \in { x \in Outcomes : x[1] \in {"send", "read"} } :
          LET r == OriginateRun(sock, o)
          IN  /\ sent' = sent \o r.wire
              /\ call' = [op |-> "originate_simple", arg |-> <<>>, exc |-> r.exc]
    /\ UNCHANGED << clientIdle, sock, fdOpen, authed, closeCalled, closeErr, logoffErr >>

\* ami._send(cmd) in whatever state the client is
CallSend ==
    /\ pc = "client" /\ Len(sent) < MaxSent
    /\ \E cmd \in {LoginCmd, LogoffCmd}, io \in {"ok", "fail"} :
          LET r == _send(sock, cmd, io)
          IN  /\ sent' = sent \o r.wire
              /\ call' = [op |-> "_send", arg |-> cmd, exc |-> r.exc]
    /\ UNCHANGED << clientIdle, sock, fdOpen, authed, closeCalled, closeErr, logoffErr >>

\* variant: close() leaves self.sock set
CloseRunKeepsSock(s, io, ce) ==
    IF s = "None"
    THEN [sock |-> s, wire |-> <<>>, logoff |-> NoExc, exc |-> NoExc]
    ELSE LET w == _send(s, LogoffCmd, io)
         IN  [sock |-> s, wire |-> w.wire, logoff |-> w.exc, exc |-> ce]

\* close() on a client whose sock is s: io is the outcome of the Logoff
\* send, ce what sock.close() raises; `logoff` is swallowed by the except
\* clause, `exc` leaves close() through the two finally clauses
CloseRun(s, io, ce) ==
    IF s = "None"
    THEN [sock |-> "None", wire |-> <<>>, logoff |-> NoExc, exc |-> NoExc]
    ELSE LET w == _send(s, LogoffCmd, io)
         IN  [sock |-> "None", wire |-> w.wire, logoff |-> w.exc, exc |-> ce]

\* ami.close() in whatever state the client is; the descriptor is released
\* by sock.close() even when it raises
CallClose ==
    /\ pc = "client" /\ Len(sent) < MaxSent
    /\ \E io \in {"ok", "fail"}, ce \in {NoExc, "OSError"} :
          LET r == CloseRun(sock, io, ce)
          IN  /\ sock' = r.sock
              /\ fdOpen' = (fdOpen /\ sock = "None")
              /\ sent' = sent \o r.wire
              /\ logoffErr' = r.logoff
              /\ closeErr' = r.exc
              /\ call' = [op |-> "close", arg |-> <<>>, exc |-> r.exc]
    /\ closeCalled' = TRUE
    /\ UNCHANGED << clientIdle, authed >>

\* a caller holding one AMIClient and calling its methods in any order
ClientInit == pc = "client" /\ call = NoCall /\ Fresh

ClientNext == CallConnect \/ CallOriginate \/ CallSend \/ CallClose

ClientSpec == ClientInit /\ [][ClientNext]_vars

(* ---------------- _ami_line called directly ---------------- *)
\* the fields a dictionary passed to _ami_line is built from: three keys,
\* string values and an integer value (f"{v}" formats both)
FieldItems ==
    { StrItem(k, v) : k \in {"Action", "Channel", "Priority"},
                      v \in {"Originate", DIAL_STRING} }
        \cup { IntItem(k, PRIORITY) : k \in {"Action", "Channel", "Priority"} }

\* the dictionaries of at most n fields, in insertion order, keys distinct
RECURSIVE CmdDicts(_)
CmdDicts(n) ==
    IF n = 0 THEN {<<>>}
    ELSE LET prev == CmdDicts(n - 1)
         IN  prev \cup UNION { { Append(d, x) : x \in { y \in FieldItems :
                                     \A i \in 1..Len(d) : d[i].k # y.k } } :
                               d \in { p \in prev : Len(p) = n - 1 } }

\* _ami_line(cmd_dict) returns its bytes
ApplyAmiLine ==
    /\ pc = "render"
    /\ pc' = "rendered"
    /\ sent' = << _ami_line(call.arg) >>
    /\ UNCHANGED << httpOpen, lineNo, cur, sessions, sock, fdOpen, authed, chunks,
                    dispatchErr, pending, closeCalled, closeErr, logoffErr,
                    mainVars, highSeen, dispatched, lastLine, skipped, apiVars >>

\* a caller about to pass a dictionary to _ami_line
LineInit ==
    /\ pc = "render"
    /\ call \in { [op |-> "_ami_line", arg |-> d, exc |-> NoExc] : d \in CmdDicts(MaxFields) }
    /\ Fresh

LineNext == ApplyAmiLine

LineSpec == LineInit /\ [][LineNext]_vars

(* ---------------- send_webhook called by its test ---------------- *)
\* JSON text as tokens: punctuation, quoted strings, numbers
JPunct(c) == [t |-> "punct", s |-> c, i |-> 0]
JStr(x)   == [t |-> "str", s |-> x, i |-> 0]
JNum(n)   == [t |-> "num", s |-> "", i |-> n]
JValue(item) == IF item.t = "int" THEN JNum(item.i) ELSE JStr(item.s)

RECURSIVE JsonMembers(_)
JsonMembers(d) ==
    IF d = <<>> THEN <<>>
    ELSE IF Len(d) = 1 THEN << JStr(d[1].k), JPunct(":"), JValue(d[1]) >>
    ELSE << JStr(d[1].k), JPunct(":"), JValue(d[1]), JPunct(",") >> \o JsonMembers(Tail(d))

\* variant: the body carries the event without its last field
JsonDumpsTruncated(d) ==
    << JPunct("{") >> \o JsonMembers(SubSeq(d, 1, Len(d) - 1)) \o << JPunct("}") >>

\* json.dumps(msg): the object's members in insertion order
JsonDumps(d) == << JPunct("{") >> \o JsonMembers(d) \o << JPunct("}") >>

\* json.loads(body): the dict the object text stands for, order forgotten
JsonLoads(body) ==
    { IF body[4 * n].t = "num"
      THEN IntItem(body[4 * n - 2].s, body[4 * n].i)
      ELSE StrItem(body[4 * n - 2].s, body[4 * n].s) : n \in 1..((Len(body) - 1) \div 4) }

\* the events the test may send: title, message and an integer priority
WebhookMsgs ==
    { << StrItem("title", ti), StrItem("message", m), IntItem("priority", p) >> :
        ti \in {"test", "alert"}, m \in {"hello", "fire"}, p \in 1..MaxPrio }

\* the values the test may give WEBHOOK_HOST, WEBHOOK_PORT and WEBHOOK_PATH
WebhookTargets ==
    { [host |-> "127.0.0.1", port |-> pt, path |-> pa] :
        pt \in {"8080"}, pa \in {"/hook", "/notify"} }

webhookIdle == << httpOpen, lineNo, cur, sessions, sock, fdOpen, authed, chunks, sent,
                 dispatchErr, pending, closeCalled, closeErr, logoffErr,
                 mainVars, highSeen, dispatched, lastLine, skipped >>

\* send_webhook(msg): one POST to WEBHOOK_HOST:WEBHOOK_PORT at WEBHOOK_PATH
\* with json.dumps(msg) as its body; do_POST of the test server records it
SendWebhookPost ==
    /\ pc = "webhook"
    /\ pc' = "webhook_sent"
    /\ posts' = Append(posts, [method |-> "POST", host |-> call.arg.to.host,
                               port |-> call.arg.to.port, path |-> call.arg.to.path,
                               body |-> JsonDumps(call.arg.msg)])
    /\ UNCHANGED << webhookIdle, call >>

\* the server answers 200 and send_webhook returns
SendWebhookReturn ==
    /\ pc = "webhook_sent"
    /\ pc' = "webhook_done"
    /\ UNCHANGED << webhookIdle, apiVars >>

send_webhook == SendWebhookPost \/ SendWebhookReturn

\* the test has set the environment, reloaded the module and built msg
WebhookInit ==
    /\ pc = "webhook"
    /\ call \in { [op |-> "send_webhook", arg |-> [msg |-> m, to |-> w], exc |-> NoExc] :
                    m \in WebhookMsgs, w \in WebhookTargets }
    /\ Fresh

WebhookNext == send_webhook

WebhookSpec == WebhookInit /\ [][WebhookNext]_vars

TypeOK ==
    /\ pc \in {"main", "get", "stream", "handle", "backoff", "client", "render", "rendered",
              "webhook", "webhook_sent", "webhook_done"} \cup DispatchPcs
    /\ httpOpen \in BOOLEAN
    /\ lineNo \in 0..MaxLines
    /\ cur \in Msgs \cup {NoMsg}
    /\ sessions \in 0..1
    /\ sock \in {"None", "socket"}
    /\ fdOpen \in BOOLEAN
    /\ authed \in BOOLEAN
    /\ Len(Join(chunks)) <= MaxResp
    /\ Len(sent) <= 3
    /\ dispatchErr \in Exceptions \cup {NoExc}
    /\ pending \in Exceptions \cup {NoExc}
    /\ closeCalled \in BOOLEAN
    /\ closeErr \in {NoExc, "OSError"}
    /\ logoffErr \in {NoExc, "OSError"}
    /\ fails \in 0..MaxFail
    /\ sleep \in {0, ShortSleep, LongSleep}
    /\ lastExc \in Exceptions \cup {NoExc}
    /\ highSeen \in 0..MaxLines
    /\ dispatched \in 0..MaxLines
    /\ lastLine \in {"none", "other", "badjson", "msg"}
    /\ skipped \in 0..MaxLines
    /\ afterDrop \in BOOLEAN

(* ======================= claims ======================= *)

\* value of a field in a block as it went over the wire ("" when absent)
FieldOf(block, key) ==
    IF \E n \in 1..Len(block) :
          block[n] = key /\ (n = 1 \/ block[n - 1] = CRLF) /\ n + 2 <= Len(block)
    THEN LET n == CHOOSE m \in 1..Len(block) :
                     block[m] = key /\ (m = 1 \/ block[m - 1] = CRLF) /\ m + 2 <= Len(block)
         IN  block[n + 2]
    ELSE ""
ActionOf(block) == FieldOf(block, "Action")

\* the block appended to sent by this step, <<>> when none was
NewBlock == IF Len(sent') = Len(sent) + 1 THEN sent'[Len(sent')] ELSE <<>>

\* C1: for an event with priority >= 4, whatever connect() or
\* originate_simple() raises is caught in handle_ntfy_msg: no exception stays
\* in flight, and every way out of the dispatch leads back into the loop of
\* subscribe_ntfy on the same, still open stream, at the same line count.
C1_DispatchErrorsContained ==
    [][ /\ pending' = NoExc
        /\ (pc \in DispatchPcs /\ pc' \notin DispatchPcs)
              => (pc' = "stream" /\ httpOpen' /\ lineNo' = lineNo) ]_vars

\* handle_ntfy_msg has returned into the loop after connect() or
\* originate_simple() raised a socket error
C1_Witness ==
    pc = "stream" /\ httpOpen /\ sessions = 1 /\ dispatchErr = "OSError" /\ lineNo < MaxLines

\* the priority the event carries is numeric and at least 4
C2_High(msg) ==
    /\ msg.obj
    /\ \/ msg.priority.t \in {"int", "numstr"} /\ msg.priority.i >= 4
       \/ msg.priority.t = "float" /\ msg.priority.i >= 40

\* C2: handle_ntfy_msg creates an AMIClient and calls connect() if and only
\* if the event's priority is >= 4 (never for a lower or an absent priority),
\* at most one per event, and every event with priority >= 4 of a stream gets
\* its own: the sessions opened on a stream number the high events forwarded.
C2_SessionIffHigh ==
    /\ sessions \in 0..1
    /\ (pc \in DispatchPcs => sessions = 1)
    /\ (cur # NoMsg /\ pc # "handle") =>
          /\ sessions = 1 <=> C2_High(cur)
          /\ dispatched = highSeen

\* two consecutive events of one stream each got a session
C2_Witness ==
    pc = "stream" /\ lineNo = 2 /\ dispatched = 2 /\ sessions = 1 /\ closeCalled

\* C3: an event whose priority is present but non-numeric is handled as
\* priority 3: handle_ntfy_msg returns to the stream loop and opens no session.
C3_NonNumericIsThree ==
    [][ (pc = "handle" /\ cur.obj /\ cur.priority.t = "text")
           => (pc' = "stream" /\ sessions' = 0) ]_vars

\* C4: when handle_ntfy_msg is not running a dispatch, no AMI socket is
\* open and the client holds none; the session the last call created has had
\* close() invoked on it.
C4_SessionClosed ==
    pc \notin DispatchPcs =>
        /\ ~fdOpen
        /\ sock = "None"
        /\ (sessions = 1 => closeCalled)

\* handle_ntfy_msg has returned after originate_simple() failed on an
\* authenticated session and the Logoff could not be sent either
C4_Witness ==
    /\ pc = "stream" /\ sessions = 1 /\ authed
    /\ dispatchErr = "OSError" /\ logoffErr = "OSError" /\ closeCalled

\* C5 as stated: every block other than Login is sent on a session whose
\* login response contained Success.
C5_NoSendBeforeLogin ==
    [][ (NewBlock # <<>> /\ ActionOf(NewBlock) # "Login") => authed ]_vars

\* C5 as amended: on a session whose login response did not contain Success
\* the only blocks sent are Login and the Logoff of close(); an Originate block
\* is sent only after a login response containing Success.
C5_OnlyLogoffBeforeLogin ==
    [][ /\ (NewBlock # <<>> /\ ActionOf(NewBlock) \notin {"Login", "Logoff"}) => authed
        /\ (NewBlock # <<>> /\ ~authed) => ActionOf(NewBlock) \in {"Login", "Logoff"} ]_vars

\* close() has sent Logoff on a session whose login was rejected
C5_Witness ==
    /\ pc = "sock_close" /\ ~authed /\ dispatchErr = "RuntimeError"
    /\ Len(sent) = 2 /\ ActionOf(sent[2]) = "Logoff"

\* no Originate block is among the blocks
NoOriginate(blocks) == \A n \in 1..Len(blocks) : ActionOf(blocks[n]) # "Originate"

\* C6: connect() returns exactly when the login response contains Success;
\* otherwise it raises RuntimeError, after which no Originate block is sent on
\* the session and close() has been invoked by the time the handler returns.
C6_LoginGate ==
    [][ /\ pc = "login_check" =>
              IF Contains(Join(chunks), << "Success" >>)
              THEN pc' = "orig_send" /\ dispatchErr' = NoExc
              ELSE pc' = "close" /\ dispatchErr' = "RuntimeError"
        /\ dispatchErr' = "RuntimeError" =>
              /\ NoOriginate(sent')
              /\ (pc' \notin DispatchPcs => closeCalled') ]_vars

\* the handler has returned after a login response without Success
C6_Witness ==
    /\ pc = "stream" /\ dispatchErr = "RuntimeError" /\ closeCalled
    /\ Len(sent) >= 1 /\ ActionOf(sent[1]) = "Login"

\* C7: a dispatch whose login is accepted and in which nothing fails opens
\* one session and sends exactly Login, Originate with Exten = EXTENSION,
\* Logoff, in this order; every block goes out on the open socket, which is
\* closed when the handler returns.
C7_HappyPath ==
    [][ /\ (NewBlock # <<>>) => (fdOpen /\ fdOpen')
        /\ ( /\ pc' = "stream" /\ sessions' = 1 /\ authed'
             /\ dispatchErr' = NoExc /\ logoffErr' = NoExc )
           => /\ Len(sent') = 3
              /\ ActionOf(sent'[1]) = "Login"
              /\ ActionOf(sent'[2]) = "Originate"
              /\ FieldOf(sent'[2], "Exten") = EXTENSION
              /\ ActionOf(sent'[3]) = "Logoff"
              /\ ~fdOpen' ]_vars

\* a priority-5 event has been dispatched with an accepted login and no failure
C7_Witness ==
    /\ pc = "stream" /\ cur = ObjMsg(PrioInt(5)) /\ sessions = 1 /\ authed
    /\ dispatchErr = NoExc /\ logoffErr = NoExc /\ Len(sent) = 3

\* C8: no forwarded frame ends the subscription: from the call of
\* handle_ntfy_msg the flow goes on into the dispatch or back to the loop.
C8_NoFrameEndsStream ==
    [][ pc = "handle" => pc' \in {"stream", "connect"} ]_vars

\* C9: a "data: " line that is not JSON is skipped: it is not forwarded to
\* handle_ntfy_msg (no call is entered, no session opened), the loop stays on
\* the open stream, and a valid frame read right after it is forwarded.
C9_BadJsonSkipped ==
    [][ /\ (lastLine' = "badjson" /\ lineNo' = lineNo + 1)
            => /\ pc' = "stream" /\ httpOpen'
               /\ cur' = cur /\ sessions' = sessions /\ skipped' = skipped + 1
        /\ (lastLine = "badjson" /\ pc = "stream" /\ lastLine' = "msg")
            => (pc' = "handle" /\ cur' \in Msgs /\ skipped' = skipped) ]_vars

\* the second line of a stream is being handled after the first was skipped
C9_Witness ==
    pc = "handle" /\ httpOpen /\ lineNo = 2 /\ skipped = 1 /\ lastLine = "msg"

\* C10: the supervisor loop has no terminal state: after any number of
\* consecutive failed subscribe_ntfy calls, of either error class, main()
\* calls subscribe_ntfy again.
C10_AlwaysResubscribes == (pc = "backoff") ~> (pc = "get")

\* main() is sleeping after the failure count has reached its cap
C10_Witness == pc = "backoff" /\ fails = MaxFail /\ lastExc = "ValueError"

\* C11: while main() sleeps after a failed subscribe_ntfy call, the wait is
\* exactly 3 when the error caught is an aiohttp.ClientError and exactly 5 for
\* any other error, whatever the number of consecutive failures so far; main()
\* waits at no other time.
C11_FixedBackoff ==
    /\ pc = "backoff" => /\ lastExc \in Exceptions
                         /\ lastExc = "ClientError" => sleep = 3
                         /\ lastExc # "ClientError" => sleep = 5
    /\ pc # "backoff" => sleep = 0

\* main() sleeps the short wait after as many failures as the model counts
C11_Witness ==
    pc = "backoff" /\ fails = MaxFail /\ lastExc = "ClientError" /\ sleep = 3

\* C12: when the stream drops while the body is read, main() waits the short
\* backoff (3), then calls subscribe_ntfy again, and the new subscription
\* forwards with the same filter: a session is opened iff priority >= 4.
C12_DropThenResubscribe ==
    /\ [][ /\ (pc = "stream" /\ pc' = "backoff")
                => (sleep' = 3 /\ ~httpOpen' /\ afterDrop')
           /\ (pc = "backoff" /\ afterDrop) => (pc' = "main" /\ afterDrop')
           /\ (pc = "handle" /\ afterDrop)
                => /\ pc' = "connect" <=> C2_High(cur)
                   /\ sessions' = 1 <=> C2_High(cur) ]_vars
    /\ (pc = "backoff" /\ afterDrop) ~> (pc = "get" /\ afterDrop /\ sleep = 0)

\* on the subscription made after a drop an event of priority 4 is dispatched
C12_Witness ==
    pc = "connect" /\ afterDrop /\ fails >= 1 /\ cur = ObjMsg(PrioInt(4)) /\ sessions = 1

\* C17: _read_until_blank stops as soon as the bytes accumulated so far hold
\* CRLF CRLF, however the bytes are split across reads: while the loop is
\* still waiting for another recv, the chunks read so far hold no terminator.
C17_StopsAtTerminator ==
    pc \in {"login_read", "orig_read"} => ~Contains(Join(chunks), Terminator)

\* C18: processing is strictly sequential: a stream is opened only when none
\* is open, an AMI socket only when none is open, and only inside the open
\* stream; while a dispatch runs no further line is read, so a line is read
\* only when the session of the previous event is closed; dispatches follow
\* the order of the lines, one per line at most.
C18_Sequential ==
    [][ /\ (pc = "get" /\ httpOpen') => ~httpOpen
        /\ (pc = "connect" /\ fdOpen') => (~fdOpen /\ sock = "None" /\ httpOpen)
        /\ (lineNo' = lineNo + 1) => (~fdOpen /\ sock = "None" /\ pc = "stream")
        /\ (pc \in DispatchPcs) => (lineNo' = lineNo /\ cur' = cur /\ dispatched' = dispatched)
        /\ (dispatched' # dispatched /\ pc # "main")
              => (dispatched' = dispatched + 1 /\ pc = "handle" /\ pc' = "connect") ]_vars

\* the second event of a stream starts its dispatch with no socket open
C18_Witness ==
    pc = "connect" /\ lineNo = 2 /\ dispatched = 2 /\ ~fdOpen /\ sock = "None" /\ httpOpen

\* C19: when subscribe_ntfy returns normally main() calls it again at once,
\* with no wait; main() waits only after a call that raised.
C19_NoWaitAfterReturn ==
    [][ /\ (pc = "stream" /\ pc' # "handle" /\ lineNo' = lineNo /\ lastExc' = NoExc)
              => (pc' = "main" /\ sleep' = 0)
        /\ (pc = "main") => (pc' = "get" /\ sleep' = 0)
        /\ (pc' = "backoff") => (lastExc' \in Exceptions /\ sleep' > 0) ]_vars

\* subscribe_ntfy has returned after reading its stream to the end
C19_Witness ==
    pc = "main" /\ fails = 0 /\ lineNo = MaxLines /\ sleep = 0 /\ ~httpOpen

\* C13: close() never propagates an error to its caller, in any client
\* state: whatever fails inside it, the call returns normally with the socket
\* closed and released.
C13_CloseNeverRaises ==
    call.op = "close" => (call.exc = NoExc /\ sock = "None" /\ ~fdOpen)

\* C14 as claimed: close() on a client that was never connected, whose
\* connect() failed, or that was already closed sends nothing, raises nothing
\* and leaves the client without a socket.
C14_CloseInertWhenNotConnected ==
    [][ (call'.op = "close"
           /\ (sock = "None" \/ call.op = "close"
                 \/ (call.op = "connect" /\ call.exc # NoExc)))
          => (sent' = sent /\ call'.exc = NoExc /\ sock' = "None") ]_vars

\* C14: close() on a client that holds no socket (never connected, connect()
\* refused, already closed) sends nothing, raises nothing and leaves it without
\* one; on a client that holds one, also after a connect() that failed later,
\* it sends at most one block, a Logoff, and releases the socket; a close()
\* right after a close() does nothing.
C14_CloseIdempotent ==
    [][ call'.op = "close" =>
          /\ sock' = "None" /\ ~fdOpen'
          /\ (sock = "None" => (sent' = sent /\ call'.exc = NoExc))
          /\ (call.op = "close" => (sent' = sent /\ call'.exc = NoExc))
          /\ (sock # "None" =>
                 \/ sent' = sent
                 \/ /\ Len(sent') = Len(sent) + 1
                    /\ SubSeq(sent', 1, Len(sent)) = sent
                    /\ ActionOf(sent'[Len(sent')]) = "Logoff") ]_vars

\* a client whose login got no Success has been closed: the Login block and
\* the Logoff block are all it sent
C14_Witness ==
    /\ call.op = "close" /\ closeCalled /\ sock = "None" /\ ~fdOpen /\ ~authed
    /\ Len(sent) = 2 /\ ActionOf(sent[1]) = "Login" /\ ActionOf(sent[2]) = "Logoff"

\* C20: after any close() the client holds no socket, whether or not the
\* Logoff send or sock.close() failed; on a client that holds no socket
\* originate_simple() and _send() raise RuntimeError ("AMI connection not
\* open") and write nothing.
C20_ClosedClientRefusesSends ==
    [][ /\ (call'.op = "close") => (sock' = "None" /\ ~fdOpen')
        /\ (call'.op \in {"originate_simple", "_send"} /\ sock = "None")
              => (call'.exc = "RuntimeError" /\ sent' = sent /\ sock' = "None") ]_vars

\* originate_simple() was refused on a client whose close() had both its
\* Logoff send and its sock.close() fail
C20_Witness ==
    /\ call.op = "originate_simple" /\ call.exc = "RuntimeError" /\ sock = "None"
    /\ closeCalled /\ logoffErr = "OSError" /\ closeErr = "OSError" /\ Len(sent) = 1

\* the text of a field's value as the block must show it
ValueText(item) == IF item.t = "int" THEN ToString(item.i) ELSE item.s

\* C15: _ami_line renders the fields of the mapping in insertion order, each
\* as key, ": ", value, the fields joined by CRLF and the whole followed by
\* CRLF CRLF; for two fields exactly K1: V1 CRLF K2: V2 CRLF CRLF.
C15_AmiLineFormat ==
    pc = "rendered" =>
        LET d == call.arg
            w == sent[1]
            n == Len(d)
        IN  /\ Len(sent) = 1
            /\ Len(w) = (IF n = 0 THEN 2 ELSE 4 * n + 1)
            /\ \A i \in 1..n :
                  /\ w[4 * i - 3] = d[i].k
                  /\ w[4 * i - 2] = ": "
                  /\ w[4 * i - 1] = ValueText(d[i])
                  /\ w[4 * i] = CRLF
            /\ w[Len(w)] = CRLF
            /\ (n = 0 => w = << CRLF, CRLF >>)
            /\ (n = 2 => w = << d[1].k, ": ", ValueText(d[1]), CRLF,
                                d[2].k, ": ", ValueText(d[2]), CRLF, CRLF >>)

\* a mapping of two fields, the second with an integer value, was rendered
C15_Witness ==
    /\ pc = "rendered"
    /\ call.arg = << StrItem("Channel", DIAL_STRING), IntItem("Priority", PRIORITY) >>
    /\ sent = << << "Channel", ": ", "PJSIP/1000", CRLF, "Priority", ": ", "1", CRLF, CRLF >> >>

\* the dict a sequence of fields stands for, order forgotten
AsDict(d) == { d[n] : n \in 1..Len(d) }

====
